---- MODULE Spec2Model ----
(***************************************************************************)
(* EagerForm: the validation orchestration of src/unnamed/part_000         *)
(* (index.js, version 1.0.5), the remote rule of src/unnamed/part_001      *)
(* (rules/remote.js), the match rule of src/unnamed/part_002 and the       *)
(* reference rule of src/src/rules/reference.js.                           *)
(*                                                                         *)
(* One JavaScript task (an event listener, a timer callback, an XHR        *)
(* callback, the settlement of a rule's promise) is one action; the        *)
(* promise reactions the task queues run at the end of the same action, in *)
(* queue order, as the microtask checkpoint runs them.  Time is counted in *)
(* ticks of 100 ms.  Every control of the modelled forms sits in a parent  *)
(* of its own, with its own feedback node.                                 *)
(***************************************************************************)
EXTENDS Integers, Sequences, FiniteSets, TLC

(* ------------------------------------------------------------ bounds --- *)
\* Trigger occurrences (handleInput calls) in one behaviour.
MaxOcc == 3
\* Submits handled in one behaviour.
MaxSubmit == 2
\* validate() calls made by the page in one behaviour.
MaxCalls == 2
\* Instances started on the form in one behaviour.
MaxInst == 2

(* --------------------------------------------------------- constants --- *)
\* setTimeout(..., 500) of hightlightErrors, in ticks of 100 ms.
FocusTicks == 5
\* defaultOptions.debounce.blur = 100, in ticks of 100 ms.
BlurDebounce == 1
\* XMLHttpRequest.readyState values.
UNSENT == 0
OPENED == 1
DONE == 4
\* The status the remote rule takes as success.
OkStatus == 200
\* The statuses a server answers with in the model.
Statuses == {200, 404}

\* The validateField calls the call stack holds at most, one inside the
\* other.
MaxStack == 5
\* The passes of a control after which the model follows a chain of timers no
\* further.
MaxPass == 4

Fields == {1, 2}
\* The id attributes of the modelled controls ("" : no id).
Ids == {"", "u", "v"}
Values == {"", "a", "b"}
EventTypes == {"blur", "change", "input", "keyup"}
Keys == {"none", "Tab", "x"}

\* static reservedWords
reservedWords == {"error", "debounce", "delay"}

\* The registry after the module is loaded (match, reference, remote, in this
\* order) and after the page registered rules of its own: "user", an
\* asynchronous predicate that accepts the value "a" and settles later;
\* "thrower", a predicate that throws when it is called; "plain", a predicate
\* that returns no promise; "silent", a predicate that returns a promise
\* rejected without a reason.
RuleOrder == <<"match", "reference", "remote", "user", "thrower", "plain", "silent">>

RuleNames == {"match", "reference", "remote", "user", "thrower", "plain", "silent"}

NoAttr == "<absent>"

VARIABLES
  form,            \* [Fields -> control]: the attributes of each control
  opt,             \* this.options
  hasSubmitBtn,    \* this.submitBtn is not null
  value,           \* element.value
  customValidity,  \* the message given to element.setCustomValidity
  cls,             \* "none" | "valid" | "invalid": the control's state class
  feedback,        \* textContent of the control's feedback node
  pass,            \* number of passes validateField started on the control
  formValidated,   \* the form carries formValidatedClass
  submitDisabled,  \* the submit control carries the disabled attribute
  isFocusing,      \* this.isFocusing
  timers,          \* pending setTimeout callbacks
  intervals,       \* this.intervals: slot -> timer id (0: none)
  nextId,          \* next timer / promise / request id
  pend,            \* unsettled promises of the "user" rule
  handle,          \* this[`__remote_request_${id}`]: id -> XHR object (0: undefined)
  xhr,             \* the XMLHttpRequest objects created so far
  busy,            \* data-eager-remote-busy of the control's parent
  remoteLast,      \* the latest remote validation started on the control
  obs,             \* what the latest task did (observation only)
  burstInv,        \* validateField calls made by the debounce timers of a burst
  delayOcc,        \* delayed occurrences since the last delayed call of (field, event)
  nOcc,            \* trigger occurrences handled so far
  nSubmit,         \* submits handled so far
  lastSettled,     \* the rule of the control whose promise settled last in time
  idem,            \* validate() calls in a row and what the controls showed before the latest
  nCalls,          \* validate() calls made by the page so far
  cancels,         \* the page's eager:before-validate listener calls preventDefault()
  registry,        \* EagerForm.rules, in insertion order
  messages,        \* EagerForm.messages: the loaded locales
  instances,       \* the options of the instances started so far
  bound,           \* form.EagerForm: the bound instance (0: none)
  listeners,       \* the listeners subscribed on the form: <<event type, instance>>
  novalidate       \* the form carries the novalidate attribute

vars == <<form, opt, hasSubmitBtn, value, customValidity, cls, feedback, pass,
          formValidated, submitDisabled, isFocusing, timers, intervals, nextId,
          pend, handle, xhr, busy, remoteLast, obs, burstInv, delayOcc, nOcc,
          nSubmit, lastSettled, idem, nCalls, cancels, registry, messages,
          instances, bound, listeners, novalidate>>

static == <<form, opt, hasSubmitBtn>>

\* The page's listener, the class's registries and the binding of instances
\* to the form.
life == <<cancels, registry, messages, instances, bound, listeners, novalidate>>

(* ----------------------------------------------------- the state record *)
\* The mutable state a handler works on; micro is the microtask queue, empty
\* between tasks.
St ==
  [value |-> value, customValidity |-> customValidity, cls |-> cls,
   feedback |-> feedback, pass |-> pass, formValidated |-> formValidated,
   submitDisabled |-> submitDisabled, isFocusing |-> isFocusing,
   timers |-> timers, intervals |-> intervals, nextId |-> nextId,
   pend |-> pend, handle |-> handle, xhr |-> xhr, busy |-> busy,
   remoteLast |-> remoteLast, lastSettled |-> lastSettled,
   micro |-> <<>>, invoked |-> <<>>, signals |-> <<>>, launched |-> <<>>,
   threw |-> FALSE, prevented |-> FALSE,
   disabledBtn |-> FALSE, enabledBtn |-> FALSE, focused |-> 0, done |-> 0,
   gate |-> {}, key |-> "none"]

Commit(S) ==
  /\ value' = S.value
  /\ customValidity' = S.customValidity
  /\ cls' = S.cls
  /\ feedback' = S.feedback
  /\ pass' = S.pass
  /\ formValidated' = S.formValidated
  /\ submitDisabled' = S.submitDisabled
  /\ isFocusing' = S.isFocusing
  /\ timers' = S.timers
  /\ intervals' = S.intervals
  /\ nextId' = S.nextId
  /\ pend' = S.pend
  /\ handle' = S.handle
  /\ xhr' = S.xhr
  /\ busy' = S.busy
  /\ remoteLast' = S.remoteLast
  /\ lastSettled' = S.lastSettled

(* --------------------------------------------- native constraint adapter *)
\* The values that are e-mail addresses.
Emails == {"a@b"}

\* The violated native kinds of a control, in the order for..in enumerates
\* element.validity (valueMissing, typeMismatch, patternMismatch, ...).
NativeKinds(S, f) ==
  (IF form[f].required /\ S.value[f] = "" THEN <<"valueMissing">> ELSE <<>>)
  \o (IF form[f].type = "email" /\ S.value[f] # "" /\ S.value[f] \notin Emails
        THEN <<"typeMismatch">> ELSE <<>>)
  \o (IF form[f].pattern # NoAttr /\ S.value[f] # "" /\ S.value[f] # form[f].pattern
        THEN <<"patternMismatch">> ELSE <<>>)

\* element.validity.customError
CustomError(S, f) == S.customValidity[f] # ""

\* element.checkValidity()
checkValidity(S, f) == NativeKinds(S, f) = <<>> /\ ~CustomError(S, f)

\* element.validationMessage
validationMessage(S, f) ==
  IF CustomError(S, f) THEN S.customValidity[f]
  ELSE IF NativeKinds(S, f) # <<>> THEN "native message"
  ELSE ""

\* hasAttribute('novalidate') && getAttribute('novalidate') !== 'false'
Suppressed(f) == form[f].novalidate # NoAttr /\ form[f].novalidate # "false"

(* ------------------------------------------------------------ rendering *)
\* The native validity kinds of the modelled controls.
KindNames == {"valueMissing", "typeMismatch", "patternMismatch"}

\* null and undefined.
Null == "<null>"

\* type.charAt(0).toUpperCase() + type.slice(1)
Capitalized(type) ==
  CASE type = "text" -> "Text"
    [] type = "email" -> "Email"
    [] type = "checkbox" -> "Checkbox"
    [] OTHER -> type

\* `${validityType}${Capitalized type}`: a key of the catalogue is written
\* as the pair of the kind and the suffix ("" for the kind alone).
specificKey(validityType, type) == <<validityType, Capitalized(type)>>

\* locales/en.js, the keys of the modelled kinds; its texts for these keys
\* hold no placeholder.
En ==
  [k \in {<<"valueMissing", "">>, <<"valueMissing", "Checkbox">>,
          <<"patternMismatch", "">>, <<"typeMismatch", "">>,
          <<"typeMismatch", "Email">>, <<"remoteInvalid", "">>,
          <<"valueNotEqual", "">>} |->
     CASE k = <<"valueMissing", "">> -> "Please fill out this field."
       [] k = <<"remoteInvalid", "">> -> "The field doesn't pass remote validation."
       [] k = <<"valueNotEqual", "">> -> "The values don't match"
       [] k = <<"valueMissing", "Checkbox">> -> "Please check this box if you want to proceed."
       [] k = <<"patternMismatch", "">> -> "Please match the requested format"
       [] k = <<"typeMismatch", "">> -> "Please match the requested type"
       [] OTHER -> "Please enter an email address"]

\* A catalogue a page loads with addLocale: it has no text for typeMismatch
\* and none for patternMismatch alone, and it has texts for text controls.
Fr ==
  [k \in {<<"valueMissing", "">>, <<"valueMissing", "Text">>,
          <<"patternMismatch", "Text">>} |->
     CASE k = <<"valueMissing", "">> -> "Champ requis"
       [] k = <<"valueMissing", "Text">> -> "Texte requis"
       [] OTHER -> "Format du texte"]

\* EagerForm.messages[this.options.locale]
Catalog == IF opt.locale = "en" THEN En ELSE Fr

\* translate(key): the text of the key if the catalogue has one, else null.
translate(key) ==
  IF key \in DOMAIN Catalog /\ Catalog[key] # "" THEN Catalog[key] ELSE Null

\* The kinds for which getMessage's switch tries the key of kind and type.
TypedKinds == {"valueMissing", "typeMismatch", "rangeOverflow", "rangeUnderflow", "badInput"}

\* switch (validityType) { ... }: the text the catalogue gives a kind.
catalogText(validityType, type) ==
  IF validityType \in TypedKinds /\ translate(specificKey(validityType, type)) # Null
    THEN translate(specificKey(validityType, type))
  ELSE translate(<<validityType, "">>)

(* A message template is a sequence of pieces: a text, or a placeholder
   {name}; the text strtpl returns is the sequence of the pieces' texts. *)
Text(s) == [ph |-> FALSE, text |-> s]
Hole(name) == [ph |-> TRUE, text |-> name]

\* A value that was never assigned.
Undefined == "<undefined>"

\* String(v), as String.prototype.replace applies it to what the replacer
\* returns.
asString(v) ==
  IF v = Null THEN "null" ELSE IF v = Undefined THEN "undefined" ELSE v

\* element.getAttribute(name): null when the attribute is absent.
getAttribute(f, name) == IF form[f][name] = NoAttr THEN Null ELSE form[f][name]

\* EagerForm.unicodeStrLen(element.value.toString()), as a number's text.
unicodeStrLen(v) == IF v = "" THEN "0" ELSE IF v \in {"a", "b"} THEN "1" ELSE "3"

\* this.translate('numbers', {}): the digits the locale writes differently;
\* en.js has none, the catalogue the page loaded writes 5 as V.
numbers == [d \in (IF opt.locale = "en" THEN {} ELSE {"5"}) |-> "V"]

\* translateNumbers(string): null and undefined are returned as they are;
\* else every digit the locale has a sign for is replaced (the numbers of
\* the model have one digit).
translateNumbers(string) ==
  IF string \in {Null, Undefined} THEN string
  ELSE IF string \in DOMAIN numbers THEN numbers[string]
  ELSE string

\* The names in the value map getMessage builds: count, maxlength,
\* minlength and step always; min and max for number, range, date and
\* datetime-local controls only.
dataKeys(f) ==
  {"count", "maxlength", "minlength", "step"}
    \cup (IF form[f].type \in {"number", "range", "date", "datetime-local"}
            THEN {"min", "max"} ELSE {})

\* The value map: data.min and data.max are computed from data.min and
\* data.max themselves, which were never assigned: translateNumbers gives
\* undefined, new Date(undefined).toLocaleString(...) gives "Invalid Date".
data(S, f) ==
  [k \in dataKeys(f) |->
     CASE k = "count" -> translateNumbers(unicodeStrLen(S.value[f]))
       [] k \in {"maxlength", "minlength", "step"} -> translateNumbers(getAttribute(f, k))
       [] OTHER -> IF form[f].type \in {"number", "range"}
                     THEN translateNumbers(Undefined)
                   ELSE "Invalid Date"]

\* static strtpl(text, replacements): each {name} becomes
\* replacements[name], as a string, when name is in replacements, else "".
strtpl(text, replacements) ==
  [i \in DOMAIN text |->
     IF ~text[i].ph THEN text[i].text
     ELSE IF text[i].text \in DOMAIN replacements
       THEN asString(replacements[text[i].text])
     ELSE ""]

\* The end of getMessage: return EagerForm.strtpl(msg, data).
fillTemplate(S, f, msg) == strtpl(msg, data(S, f))

\* getMessage(element, validityType): element.validationMessage for a custom
\* error; else the per-kind attribute if the control has it, else the global
\* attribute if it has that; when this gave no text or an empty one, the
\* catalogue; when the catalogue gave none, element.validationMessage.  The
\* texts of the model hold no placeholder for strtpl to replace.
getMessage(S, f, validityType) ==
  IF validityType = "customError" THEN validationMessage(S, f)
  ELSE LET inline == form[f].kindError[validityType]
           inlineGlobal == form[f].errorAttr
           attr == IF inline # NoAttr THEN inline
                   ELSE IF inlineGlobal # NoAttr THEN inlineGlobal
                   ELSE Null
           msg == IF attr # Null /\ attr # "" THEN attr
                  ELSE catalogText(validityType, form[f].type)
       IN  IF msg = Null THEN validationMessage(S, f) ELSE msg

setError(S, f, validityType) ==
  [S EXCEPT !.cls[f] = "invalid", !.feedback[f] = getMessage(S, f, validityType)]

clearError(S, f) ==
  [S EXCEPT !.cls[f] = IF opt.showSuccessState THEN "valid" ELSE "none",
            !.feedback[f] = ""]

clearValidation(S, f) ==
  [S EXCEPT !.cls[f] = "none", !.feedback[f] = ""]

(* ----------------------------------------------------- promise reactions *)
\* The text of the reason a rule rejects with ("": null, or no reason):
\* this.translate('valueNotEqual'), this.translate('remoteInvalid'), and the
\* reasons of the page's own rules.
RejectReason(rule) ==
  CASE rule = "match" ->
         IF translate(<<"valueNotEqual", "">>) = Null THEN ""
         ELSE translate(<<"valueNotEqual", "">>)
    [] rule = "remote" ->
         IF translate(<<"remoteInvalid", "">>) = Null THEN ""
         ELSE translate(<<"remoteInvalid", "">>)
    [] rule = "silent" -> ""
    [] OTHER -> "user rule failed"

\* The reaction of validateField's .then(...).catch(...) to a settled rule.
\* A fulfilment reaches the .then callback in one job; a rejection passes
\* through the promise .then returns and reaches .catch one job later.
Reaction(f, rule, g, ok) ==
  [f |-> f, rule |-> rule, pass |-> g, ok |-> ok, hop |-> IF ok THEN 0 ELSE 1]

\* .then(() => { element.setCustomValidity(''); this.clearError(element); })
thenEffect(S, r) ==
  clearError([S EXCEPT !.customValidity[r.f] = ""], r.f)

\* The message .catch gives to setCustomValidity.
catchMessage(r) ==
  IF form[r.f].ruleError[r.rule] # NoAttr THEN form[r.f].ruleError[r.rule]
  ELSE IF form[r.f].errorAttr # NoAttr THEN form[r.f].errorAttr
  ELSE RejectReason(r.rule)

\* .catch((err) => { ...; element.setCustomValidity(msg); this.setError(element, 'customError'); })
catchEffect(S, r) ==
  setError([S EXCEPT !.customValidity[r.f] = catchMessage(r)], r.f, "customError")

\* The templates of en.js that hold placeholders (tooLong, rangeUnderflow,
\* rangeOverflow), and one of a page's catalogue with a name of its own.
Templates ==
  { <<Text("Please shorten this text to "), Hole("maxlength"),
      Text(" characters or less (you are currently using "), Hole("count"),
      Text(" characters).")>>,
    <<Text("Please enter a value that is no less than "), Hole("min"), Text(".")>>,
    <<Text("Please enter a value that is no more than "), Hole("max"), Text(".")>>,
    <<Text("Step "), Hole("step"), Text(" for "), Hole("label")>> }

\* The microtask checkpoint at the end of a task.
RECURSIVE Drain(_)
Drain(S) ==
  IF S.micro = <<>> THEN S
  ELSE LET r == Head(S.micro)
           T == [S EXCEPT !.micro = Tail(S.micro)]
       IN  IF r.ok THEN Drain(thenEffect(T, r))
           ELSE IF r.hop > 0
             THEN Drain([T EXCEPT !.micro = Append(T.micro, [r EXCEPT !.hop = 0])])
           ELSE Drain(catchEffect(T, r))

(* ---------------------------------------------------------------- rules *)
\* The record of a settlement: the pass that launched the rule, the rule and
\* its outcome.
Settled(g, rule, ok) == [pass |-> g, rule |-> rule, ok |-> ok]

\* rules/match.js: settles while it is called.
matchRule(S, f) ==
  LET ok == S.value[f] = S.value[form[f].matchTarget]
  IN  [S EXCEPT !.micro = Append(S.micro, Reaction(f, "match", S.pass[f], ok)),
                !.lastSettled[f] = Settled(S.pass[f], "match", ok)]

RECURSIVE handleInput(_, _, _, _)

\* rules/reference.js: when the target holds a value, a change event is
\* dispatched on it, which the instance's own change listener (if subscribed)
\* handles before dispatchEvent returns; then the promise is fulfilled.  What
\* a listener throws does not reach the caller of dispatchEvent.
\* A listener entered when the call stack holds MaxStack calls of
\* validateField fails at once for want of stack.
referenceRule(S, f) ==
  LET target == form[f].referenceTarget
      g == S.pass[f]
      N == IF S.value[target] # "" /\ "change" \in opt.revalidate
             THEN IF Len(S.invoked) >= MaxStack THEN S
                  ELSE [handleInput(S, target, "change", "none") EXCEPT !.threw = S.threw]
           ELSE S
  IN  [N EXCEPT !.micro = Append(N.micro, Reaction(f, "reference", g, TRUE)),
                !.lastSettled[f] = Settled(g, "reference", TRUE)]

\* The page's own rule: accepts the value "a"; its promise settles in a later
\* task.
userRule(S, f) ==
  [S EXCEPT !.pend = S.pend \cup
      {[id |-> S.nextId, f |-> f, pass |-> S.pass[f], ok |-> (S.value[f] = "a")]},
            !.nextId = S.nextId + 1]

\* requestHandle with the test for an existing object lost: a new
\* XMLHttpRequest for every call.
requestHandleAlwaysNew(cur, fresh) == fresh

\* if (typeof this[name] == "undefined") this[name] = new XMLHttpRequest();
requestHandle(cur, fresh) == IF cur = 0 THEN fresh ELSE cur

\* this[name].readyState > 0 && this[name].readyState < 4
abortNeeded(readyState) == readyState > UNSENT /\ readyState < DONE

\* rules/remote.js up to xhr.send: the busy marker, the lazily created
\* request object of the control's id, the abort of its pending request, and
\* open/onload/onerror/send, which bind the object to this call's promise.
remoteRule(S, f) ==
  LET key == form[f].id
      h == requestHandle(S.handle[key], S.nextId)
      old == IF h \in DOMAIN S.xhr THEN S.xhr[h]
             ELSE [readyState |-> UNSENT, status |-> 0, f |-> f, pass |-> 0, aborts |-> 0]
      aborted == abortNeeded(old.readyState)
      new == [readyState |-> OPENED, status |-> 0, f |-> f, pass |-> S.pass[f],
              aborts |-> old.aborts + (IF aborted THEN 1 ELSE 0)]
  IN  [S EXCEPT !.busy[f] = TRUE,
                !.remoteLast[f] = [pass |-> S.pass[f], failed |-> FALSE,
                                   overlap |-> aborted /\ old.f = f],
                !.handle[key] = h,
                !.nextId = IF h = S.nextId THEN S.nextId + 1 ELSE S.nextId,
                !.xhr = [k \in DOMAIN S.xhr \cup {h} |-> IF k = h THEN new ELSE S.xhr[k]]]

\* Promise.reject(): settled when the predicate returns, with no reason.
silentRule(S, f) ==
  [S EXCEPT !.micro = Append(S.micro, Reaction(f, "silent", S.pass[f], FALSE)),
            !.lastSettled[f] = Settled(S.pass[f], "silent", FALSE)]

\* rule.bind(this, element, attribute)().then(...).catch(...): what the
\* predicate throws, and the TypeError of .then on a value that is no
\* promise, leave validateField.
launch(S0, f, rule) ==
  LET S == [S0 EXCEPT !.launched = Append(S0.launched, <<f, rule>>)]
  IN  CASE rule = "match" -> matchRule(S, f)
        [] rule = "reference" -> referenceRule(S, f)
        [] rule = "remote" -> remoteRule(S, f)
        [] rule = "silent" -> silentRule(S, f)
        [] rule \in {"thrower", "plain"} -> [S EXCEPT !.threw = TRUE]
        [] OTHER -> userRule(S, f)

RECURSIVE launchFrom(_, _, _)
launchFrom(S, f, i) ==
  IF i > Len(RuleOrder) \/ S.threw THEN S
  ELSE IF RuleOrder[i] \in form[f].rules
    THEN launchFrom(launch(S, f, RuleOrder[i]), f, i + 1)
  ELSE launchFrom(S, f, i + 1)

(* -------------------------------------------------------- validateField *)
\* The validity loop stopping at the first violated kind.
setErrorsFirst(S, f, kinds) == setError(S, f, Head(kinds))

RECURSIVE setErrors(_, _, _)
setErrors(S, f, kinds) ==
  IF kinds = <<>> THEN S ELSE setErrors(setError(S, f, Head(kinds)), f, Tail(kinds))

\* validateField with the return after a native error lost: the rules are
\* launched all the same.
validateFieldNoStop(S0, f) ==
  LET S == [S0 EXCEPT !.invoked = Append(S0.invoked, f),
                      !.signals = Append(S0.signals, <<"validateField", f>>)]
      P == [S EXCEPT !.pass[f] = S.pass[f] + 1]
  IN  launchFrom(IF NativeKinds(P, f) # <<>> THEN setErrors(P, f, NativeKinds(P, f))
                 ELSE IF ~checkValidity(P, f) THEN P ELSE clearError(P, f), f, 1)

\* for (let key in element.validity) meets the key customError whenever
\* checkValidity() failed, so hasCustomError is set on every failed check;
\* every violated native kind is rendered in turn, the last one staying.
validateField(S0, f) ==
  LET S == [S0 EXCEPT !.invoked = Append(S0.invoked, f),
                      !.signals = Append(S0.signals, <<"validateField", f>>)]
  IN  IF form[f].type \in {"button", "submit", "reset"} THEN S
      ELSE IF Suppressed(f) THEN S
      ELSE IF ~opt.validateWithoutName /\ ~form[f].named THEN S
      ELSE LET P == [S EXCEPT !.pass[f] = S.pass[f] + 1]
               hasDefaultError == NativeKinds(P, f) # <<>>
               hasCustomError == ~checkValidity(P, f)
           IN  IF hasDefaultError THEN setErrors(P, f, NativeKinds(P, f))
               ELSE launchFrom(IF hasCustomError THEN P ELSE clearError(P, f), f, 1)

(* ------------------------------------------------------------ the form *)
\* querySelector('input:invalid,select:invalid,textarea:invalid'): the first
\* control, in document order, that fails its constraints (0: none).
firstInvalid(S) ==
  LET bad == {f \in Fields : ~checkValidity(S, f)}
  IN  IF bad = {} THEN 0 ELSE CHOOSE f \in bad : \A g \in bad : f <= g

getFirstError(S) ==
  LET element == firstInvalid(S)
  IN  IF element = 0 THEN 0
      ELSE IF Suppressed(element) THEN 0
      ELSE IF ~opt.validateWithoutName /\ ~form[element].named THEN 0
      ELSE element

isValid(S) == getFirstError(S) = 0

\* enableSubmit with its body lost: the submit control stays as it is.
enableSubmitNever(S) == S

\* this.submitBtn.removeAttribute('disabled'): throws when there is no
\* submit control.
enableSubmit(S) ==
  IF hasSubmitBtn THEN [S EXCEPT !.submitDisabled = FALSE, !.enabledBtn = TRUE]
  ELSE [S EXCEPT !.threw = TRUE]

disableSubmit(S) ==
  IF hasSubmitBtn THEN [S EXCEPT !.submitDisabled = TRUE, !.disabledBtn = TRUE]
  ELSE [S EXCEPT !.threw = TRUE]

newTimer(S, kind, f, e, bounce, left) ==
  [id |-> S.nextId, kind |-> kind, f |-> f, e |-> e, bounce |-> bounce, left |-> left]

hightlightErrors(S, f) ==
  IF S.isFocusing THEN S
  ELSE LET A == IF opt.autoScroll
                  THEN [S EXCEPT !.isFocusing = TRUE,
                                 !.timers = S.timers \cup {newTimer(S, "focus", f, "none", 0, FocusTicks)},
                                 !.nextId = S.nextId + 1]
                ELSE S
       IN  IF opt.focusFirstError THEN [A EXCEPT !.focused = f] ELSE A

complete(S) == [S EXCEPT !.done = S.done + 1]

\* validate(): validateField on form.elements, in document order, fieldsets
\* left out.
RECURSIVE validateFrom(_, _)
validateFrom(S, i) ==
  IF i \notin Fields \/ S.threw THEN S
  ELSE validateFrom(IF form[i].tag # "FIELDSET" THEN validateField(S, i) ELSE S, i + 1)

validate(S) == validateFrom(S, 1)

\* handleSubmit from the line after this.validate(), which an exception of
\* validate() never reaches.
submitAfterValidate(X) ==
  LET W == [X EXCEPT !.formValidated = TRUE]
      V == [W EXCEPT !.gate = {f \in Fields : ~checkValidity(W, f)}]
      firstErrorElement == getFirstError(V)
  IN  IF X.threw THEN X
      ELSE IF firstErrorElement # 0
        THEN LET P == [V EXCEPT !.prevented = TRUE]
                 D == IF opt.disableSubmit THEN disableSubmit(P) ELSE P
             IN  IF D.threw THEN D
                 ELSE complete(hightlightErrors(D, firstErrorElement))
      ELSE complete(V)

handleSubmit(S) == submitAfterValidate(validate(S))

\* restoreState(): the form's validated class is removed, the submit control
\* is enabled (when disableSubmit is on), then clearValidation runs on every
\* element of the form.
RECURSIVE clearFrom(_, _)
clearFrom(S, i) ==
  IF i \notin Fields THEN S ELSE clearFrom(clearValidation(S, i), i + 1)

restoreState(S) ==
  LET A == [S EXCEPT !.formValidated = FALSE]
      B == IF opt.disableSubmit THEN enableSubmit(A) ELSE A
  IN  IF B.threw THEN B ELSE clearFrom(B, 1)

handleReset(S) == restoreState(S)

(* ------------------------------------------------------------ scheduler *)
\* An attribute holding a number: [has |-> FALSE] when absent.
\* bounce / delay: the event's own attribute, else the generic attribute, else
\* the option of the event type, else 0.
resolveTimingGenericFirst(specific, generic, option) ==
  IF generic.has THEN generic.val
  ELSE IF specific.has THEN specific.val
  ELSE option

\* if (hasAttribute(specific)) parseInt(...) else if (hasAttribute(generic))
\* parseInt(...) else if (options[event.type]) options[event.type], from 0.
\* A value of 0 stands for every value that fails the test "> 0".
resolveTiming(specific, generic, option) ==
  IF specific.has THEN specific.val
  ELSE IF generic.has THEN generic.val
  ELSE option

\* callback(event.target): validateField, or a debounced validateField made
\* for this occurrence (lodash.debounce, trailing edge).
callback(S, f, e, bounce) ==
  IF bounce > 0
    THEN [S EXCEPT !.timers = S.timers \cup {newTimer(S, "debounce", f, e, 0, bounce)},
                   !.nextId = S.nextId + 1]
  ELSE validateField(S, f)

\* The slot of this.intervals an occurrence's delay timer is stored in:
\* this.intervals[event.type], one slot per event type for the whole form
\* (owner 0), whatever the control.
intervalKey(f, e) == <<0, e>>

\* clearTimeout(this.intervals[k]); this.intervals[k] = setTimeout(..., delay)
scheduleDelay(S, f, e, bounce, delay) ==
  LET k == intervalKey(f, e)
  IN  [S EXCEPT !.timers = {t \in S.timers : t.id # S.intervals[k]}
                             \cup {newTimer(S, "delay", f, e, bounce, delay)},
                !.intervals[k] = S.nextId,
                !.nextId = S.nextId + 1]

\* new Event(type, { bubbles: true }): the init dictionary names no
\* cancelable member, so the event is not cancelable.
EventCancelable == FALSE

\* target.dispatchEvent(event): false only when the event is cancelable and a
\* listener called preventDefault().
dispatchEvent(cancelable, prevented) == ~(cancelable /\ prevented)

\* The signal an occurrence on a control emits.
Signal(S, name, f) == [S EXCEPT !.signals = Append(S.signals, <<name, f>>)]

\* The end of handleInput: eager:after-validate is dispatched unless the
\* call of validateField threw.
afterValidate(R, f) ==
  IF R.threw THEN R ELSE Signal(R, "after-validate", f)

\* The test with the name of the key lost: any key counts as the tab key.
causedByAnyKey(key) == key # "none"

\* event.key && event.key === 'Tab' (event.key is undefined, "none", on an
\* event that is no keyboard event).
causedByTab(key) == key # "none" /\ key = "Tab"

handleInput(S0, f, e, key) ==
  LET S == Signal([S0 EXCEPT !.key = key], "before-validate", f)
      cancelled == ~dispatchEvent(EventCancelable, cancels)
  IN  IF cancelled THEN S
      ELSE IF opt.noTriggerOnTab /\ causedByTab(key) THEN S
      ELSE LET A == IF e = "change" /\ opt.disableSubmit /\ isValid(S)
                      THEN enableSubmit(S) ELSE S
               bounce == resolveTiming(form[f].evDebounce[e], form[f].debounce, opt.debounce[e])
               delay == resolveTiming(form[f].evDelay[e], form[f].delay, opt.delay[e])
           IN  IF A.threw THEN A
               ELSE afterValidate(IF delay > 0 THEN scheduleDelay(A, f, e, bounce, delay)
                                  ELSE callback(A, f, e, bounce), f)

(* ------------------------------------------- registries and the instance *)
\* The registry after the module is loaded: each built-in rule, and the
\* page's own, under its name; a predicate is named after the rule it was
\* written for.
LoadedRules == [i \in 1..Len(RuleOrder) |-> [name |-> RuleOrder[i], callback |-> RuleOrder[i]]]

\* The values a page passes as a predicate that are not functions.
NonFunctions == {"text", "undefined"}

\* The predicates a page registers, and the values that are not predicates.
Callbacks == {"fnA", "fnB"} \cup NonFunctions

\* The names a page registers rules under.
PageNames == reservedWords \cup {"match", "user", "zip"}

\* typeof callback === 'function'
isFunction(predicate) == predicate \notin NonFunctions

\* reservedWords.includes(name), with the test lost.
isReservedNever(name) == FALSE

\* EagerForm.reservedWords.includes(name)
isReserved(name) == name \in reservedWords

\* EagerForm.rules[name] = callback: an existing key keeps its place, a new
\* key comes last.
putRule(rules, name, predicate) ==
  IF \E i \in 1..Len(rules) : rules[i].name = name
    THEN [i \in 1..Len(rules) |->
            IF rules[i].name = name THEN [name |-> name, callback |-> predicate]
            ELSE rules[i]]
  ELSE Append(rules, [name |-> name, callback |-> predicate])

\* static rule(name, callback)
rule(rules, name, predicate) ==
  IF isReserved(name) THEN [rules |-> rules, threw |-> TRUE]
  ELSE IF ~isFunction(predicate) THEN [rules |-> rules, threw |-> TRUE]
  ELSE [rules |-> putRule(rules, name, predicate), threw |-> FALSE]

\* The locales a page asks for or loads.
Locales == {"en", "fr"}

\* The event types an instance can be told to revalidate on in the model.
LifeEvents == {"change"}

\* EagerForm.messages[locale] is defined, with the test lost.
localeAlwaysLoaded(locale) == TRUE

\* EagerForm.messages[this.options.locale]
localeLoaded(locale) == locale \in messages

\* attachEvents(): the listeners instance i subscribes on the form.
attachEvents(i, options) ==
  {<<e, i>> : e \in options.revalidate}
  \cup (IF options.captureSubmit THEN {<<"submit", i>>} ELSE {})
  \cup (IF options.captureReset THEN {<<"reset", i>>} ELSE {})

\* detachEvents(): the trigger and submit listeners are removed; for reset
\* it calls addEventListener.
detachEvents(i, options, L) ==
  (L \ ({<<e, i>> : e \in options.revalidate}
          \cup (IF options.captureSubmit THEN {<<"submit", i>>} ELSE {})))
  \cup (IF options.captureReset THEN {<<"reset", i>>} ELSE {})

\* The binding the constructor leaves: [threw, instances, bound, listeners,
\* novalidate].
constructor(options) ==
  LET same == [threw |-> FALSE, instances |-> instances, bound |-> bound,
               listeners |-> listeners, novalidate |-> novalidate]
      i == Len(instances) + 1
  IN  IF ~localeLoaded(options.locale) THEN [same EXCEPT !.threw = TRUE]
      ELSE IF bound = 0
        THEN [threw |-> FALSE, instances |-> Append(instances, options), bound |-> i,
              listeners |-> listeners \cup attachEvents(i, options),
              novalidate |-> TRUE]
      ELSE same

(* -------------------------------------------------------------- actions *)
\* What the latest task did.
Obs(task, f, e, g, S) ==
  [task |-> task, f |-> f, e |-> e, pass |-> g, invoked |-> S.invoked,
   signals |-> S.signals, launched |-> S.launched, threw |-> S.threw,
   prevented |-> S.prevented, disabledBtn |-> S.disabledBtn,
   enabledBtn |-> S.enabledBtn, focused |-> S.focused, done |-> S.done,
   gate |-> S.gate, key |-> S.key]

pendingFor(S, kinds, f, e) ==
  {t \in S.timers : t.kind \in kinds /\ t.f = f /\ t.e = e}

\* What the controls show.
Shown(S) == [f \in Fields |-> <<S.cls[f], S.feedback[f], S.customValidity[f]>>]

\* No validate() call since the last change of a value or trigger occurrence.
NoCalls == [n |-> 0, snap |-> [f \in Fields |-> <<"none", "", "">>]]

\* The user, or a script, changes the content of a control.
SetValue(f, v) ==
  /\ v # value[f]
  /\ value' = [value EXCEPT ![f] = v]
  /\ idem' = NoCalls
  /\ UNCHANGED <<form, opt, hasSubmitBtn, customValidity, cls, feedback, pass,
                 formValidated, submitDisabled, isFocusing, timers, intervals,
                 nextId, pend, handle, xhr, busy, remoteLast, obs, burstInv,
                 delayOcc, nOcc,
                 nSubmit, lastSettled, nCalls, life>>

\* An event of a subscribed type reaches the form: this.inputHandler.
Occur(f, e, key) ==
  /\ nOcc < MaxOcc
  /\ e \in opt.revalidate
  /\ LET S == Drain(handleInput(St, f, e, key))
         timed == S.timers # timers
     IN  /\ Commit(S)
         /\ obs' = Obs("input", f, e, 0, S)
         /\ burstInv' = IF timed /\ pendingFor(St, {"debounce", "delay"}, f, e) = {}
                          THEN [burstInv EXCEPT ![f][e] = 0] ELSE burstInv
         /\ delayOcc' = IF pendingFor(S, {"delay"}, f, e) # pendingFor(St, {"delay"}, f, e)
                          THEN [delayOcc EXCEPT ![f][e] = delayOcc[f][e] + 1]
                        ELSE delayOcc
  /\ nOcc' = nOcc + 1
  /\ idem' = NoCalls
  /\ UNCHANGED <<static, nSubmit, nCalls, life>>

\* The timer to run next: due now, the oldest first.
dueTimer(t) ==
  /\ t \in timers
  /\ t.left = 0
  /\ \A u \in timers : u.left = 0 => t.id <= u.id

timerCallback(S, t) ==
  CASE t.kind = "focus" -> [S EXCEPT !.isFocusing = FALSE]
    [] t.kind = "delay" -> callback(S, t.f, t.e, t.bounce)
    [] OTHER -> validateField(S, t.f)

FireTimer ==
  \E t \in timers :
    /\ dueTimer(t)
    /\ LET S == Drain(timerCallback([St EXCEPT !.timers = timers \ {t}], t))
       IN  /\ Commit(S)
           /\ obs' = Obs(t.kind, t.f, t.e, 0, S)
    /\ burstInv' = IF t.kind = "debounce"
                     THEN [burstInv EXCEPT ![t.f][t.e] = burstInv[t.f][t.e] + 1]
                   ELSE burstInv
    /\ delayOcc' = IF t.kind = "delay" THEN [delayOcc EXCEPT ![t.f][t.e] = 0]
                   ELSE delayOcc
    /\ UNCHANGED <<static, nOcc, nSubmit, idem, nCalls, life>>

\* 100 ms pass with no timer due.
Tick ==
  /\ timers # {}
  /\ \A t \in timers : t.left > 0
  /\ timers' = {[t EXCEPT !.left = t.left - 1] : t \in timers}
  /\ UNCHANGED <<form, opt, hasSubmitBtn, value, customValidity, cls, feedback,
                 pass, formValidated, submitDisabled, isFocusing, intervals,
                 nextId, pend, handle, xhr, busy, remoteLast, obs, burstInv,
                 delayOcc, nOcc,
                 nSubmit, lastSettled, idem, nCalls, life>>

\* The promise of the page's own rule settles.
Settle ==
  \E p \in pend :
    /\ LET S == Drain([St EXCEPT !.pend = pend \ {p},
                                !.lastSettled[p.f] = Settled(p.pass, "user", p.ok),
                                !.micro = <<Reaction(p.f, "user", p.pass, p.ok)>>])
       IN  /\ Commit(S)
           /\ obs' = Obs("settle", p.f, "none", p.pass, S)
    /\ UNCHANGED <<static, burstInv, delayOcc, nOcc, nSubmit, idem, nCalls, life>>

\* xhr.onload with the reverse flag ignored.
remoteSuccessNoReverse(status, reverse) == status = OkStatus

\* xhr.onload: let success = this.status === 200; if (reverse) success = !success
remoteSuccess(status, reverse) ==
  IF reverse THEN status # OkStatus ELSE status = OkStatus

\* The response of a request arrives: xhr.onload.
Response ==
  \E h \in DOMAIN xhr, status \in Statuses :
    /\ xhr[h].readyState = OPENED
    /\ LET r == xhr[h]
           ok == remoteSuccess(status, form[r.f].reverse = "true")
           S == Drain([St EXCEPT !.xhr[h].readyState = DONE,
                                 !.xhr[h].status = status,
                                 !.busy[r.f] = FALSE,
                                 !.lastSettled[r.f] = Settled(r.pass, "remote", ok),
                                 !.micro = <<Reaction(r.f, "remote", r.pass, ok)>>])
       IN  /\ Commit(S)
           /\ obs' = Obs("response", r.f, "none", r.pass, S)
    /\ UNCHANGED <<static, burstInv, delayOcc, nOcc, nSubmit, idem, nCalls, life>>

\* xhr.onerror with a reject(msg) added: the promise of the request is
\* rejected.
onerrorRejects(S, r) ==
  [S EXCEPT !.lastSettled[r.f] = Settled(r.pass, "remote", FALSE),
            !.micro = Append(S.micro, Reaction(r.f, "remote", r.pass, FALSE))]

\* xhr.onerror: console.log(`${this.status} ${this.statusText}`), and
\* neither resolve nor reject.
onerror(S, r) == S

\* The request fails in transport: the request object is done and
\* xhr.onerror runs.
TransportError ==
  \E h \in DOMAIN xhr :
    /\ xhr[h].readyState = OPENED
    /\ LET S == Drain(onerror([St EXCEPT !.xhr[h].readyState = DONE,
                                         !.remoteLast[xhr[h].f].failed = TRUE],
                              xhr[h]))
       IN  /\ Commit(S)
           /\ obs' = Obs("error", xhr[h].f, "none", xhr[h].pass, S)
    /\ UNCHANGED <<static, burstInv, delayOcc, nOcc, nSubmit, idem, nCalls, life>>

\* A submit event reaches the form: this.submitHandler.
Submit ==
  /\ nSubmit < MaxSubmit
  /\ opt.captureSubmit
  /\ LET S == Drain(handleSubmit(St))
     IN  /\ Commit(S)
         /\ obs' = Obs("submit", 0, "submit", 0, S)
  /\ nSubmit' = nSubmit + 1
  /\ UNCHANGED <<static, burstInv, delayOcc, nOcc, idem, nCalls, life>>

\* A reset event reaches the form: this.resetHandler.  The handler only; the
\* form's own reset of the values comes after it.
Reset ==
  /\ opt.captureReset
  /\ LET S == Drain(handleReset(St))
     IN  /\ Commit(S)
         /\ obs' = Obs("reset", 0, "reset", 0, S)
  /\ UNCHANGED <<static, burstInv, delayOcc, nOcc, nSubmit, idem, nCalls, life>>

\* No rule launched so far is still to settle.
AllSettled(S) ==
  /\ S.pend = {}
  /\ \A h \in DOMAIN S.xhr : ~abortNeeded(S.xhr[h].readyState)

\* The page calls validate().  A call made when every rule has settled and
\* no value changed since the previous call is a call in a row; idem keeps
\* what the controls showed just before it.
Validate ==
  /\ nCalls < MaxCalls
  /\ LET S == Drain(validate(St))
     IN  /\ Commit(S)
         /\ obs' = Obs("validate", 0, "none", 0, S)
  /\ idem' = [n |-> IF idem.n >= 1 /\ AllSettled(St) THEN 2 ELSE 1, snap |-> Shown(St)]
  /\ nCalls' = nCalls + 1
  /\ UNCHANGED <<static, burstInv, delayOcc, nOcc, nSubmit, life>>

\* The dynamic state of the form and of the bound instance.
dynamic == <<value, customValidity, cls, feedback, pass, formValidated,
             submitDisabled, isFocusing, timers, intervals, nextId, pend, handle,
             xhr, busy, remoteLast, lastSettled, burstInv, delayOcc, nOcc,
             nSubmit, idem, nCalls>>

\* The page calls EagerForm.rule(name, callback).
Register(name, predicate) ==
  /\ LET r == rule(registry, name, predicate)
     IN  /\ registry' = r.rules
         /\ obs' = [task |-> "rule", name |-> name, callback |-> predicate,
                    threw |-> r.threw]
  /\ UNCHANGED <<static, dynamic, cancels, messages, instances, bound, listeners,
                 novalidate>>

\* The page calls EagerForm.addLocale(name, messages).
AddLocale(name) ==
  /\ messages' = messages \cup {name}
  /\ obs' = [task |-> "addLocale", locale |-> name, threw |-> FALSE]
  /\ UNCHANGED <<static, dynamic, cancels, registry, instances, bound, listeners,
                 novalidate>>

\* The page calls new EagerForm(form, options).
Construct(options) ==
  /\ Len(instances) < MaxInst
  /\ LET c == constructor(options)
     IN  /\ instances' = c.instances
         /\ bound' = c.bound
         /\ listeners' = c.listeners
         /\ novalidate' = c.novalidate
         /\ obs' = [task |-> "construct", locale |-> options.locale, threw |-> c.threw]
  /\ UNCHANGED <<static, dynamic, cancels, registry, messages>>

\* The page calls destroy(restore) on an instance it started: restoreState(),
\* detachEvents(), delete this.form.EagerForm.
Destroy(i, restore) ==
  /\ i \in 1..Len(instances)
  /\ LET S == IF restore THEN restoreState(St) ELSE St
     IN  /\ Commit(S)
         /\ obs' = [task |-> "destroy", locale |-> instances[i].locale, inst |-> i,
                    threw |-> S.threw]
         /\ listeners' = IF S.threw THEN listeners
                         ELSE detachEvents(i, instances[i], listeners)
         /\ bound' = IF S.threw THEN bound ELSE 0
  /\ UNCHANGED <<static, burstInv, delayOcc, nOcc, nSubmit, idem, nCalls, cancels,
                 registry, messages, instances, novalidate>>

(* ------------------------------------------------------- initial states *)
NoNum == [has |-> FALSE, val |-> 0]
Num(n) == [has |-> TRUE, val |-> n]

\* <input type="text" name="..."> with no other attribute.
PlainField ==
  [type |-> "text", tag |-> "INPUT", named |-> TRUE, novalidate |-> NoAttr,
   id |-> "", required |-> FALSE, pattern |-> NoAttr, rules |-> {},
   matchTarget |-> 0, referenceTarget |-> 0, reverse |-> NoAttr,
   ruleError |-> [r \in RuleNames |-> NoAttr], errorAttr |-> NoAttr,
   kindError |-> [k \in KindNames |-> NoAttr],
   maxlength |-> NoAttr, minlength |-> NoAttr, step |-> NoAttr, min |-> NoAttr,
   max |-> NoAttr,
   evDebounce |-> [e \in EventTypes |-> NoNum], debounce |-> NoNum,
   evDelay |-> [e \in EventTypes |-> NoNum], delay |-> NoNum]

\* static defaultOptions
defaultOptions ==
  [locale |-> "en", showSuccessState |-> TRUE, autoScroll |-> TRUE, focusFirstError |-> TRUE,
   revalidate |-> {"blur", "change", "input"}, noTriggerOnTab |-> TRUE,
   delay |-> [e \in EventTypes |-> 0],
   debounce |-> [e \in EventTypes |-> IF e = "blur" THEN BlurDebounce ELSE 0],
   validateWithoutName |-> FALSE, captureSubmit |-> TRUE, disableSubmit |-> TRUE,
   captureReset |-> TRUE]

\* The state the constructor leaves, whatever the form and the options.
InitDynamic ==
  /\ value = [f \in Fields |-> ""]
  /\ customValidity = [f \in Fields |-> ""]
  /\ cls = [f \in Fields |-> "none"]
  /\ feedback = [f \in Fields |-> ""]
  /\ pass = [f \in Fields |-> 0]
  /\ formValidated = FALSE
  /\ submitDisabled = FALSE
  /\ isFocusing = FALSE
  /\ timers = {}
  /\ intervals = [k \in (Fields \cup {0}) \X EventTypes |-> 0]
  /\ nextId = 1
  /\ pend = {}
  /\ handle = [k \in Ids |-> 0]
  /\ xhr = <<>>
  /\ busy = [f \in Fields |-> FALSE]
  /\ remoteLast = [f \in Fields |-> [pass |-> 0, failed |-> FALSE, overlap |-> FALSE]]
  /\ lastSettled = [f \in Fields |-> Settled(0, "none", TRUE)]
  /\ idem = NoCalls
  /\ nCalls = 0
  /\ obs = Obs("none", 0, "none", 0, St)
  /\ burstInv = [f \in Fields |-> [e \in EventTypes |-> 0]]
  /\ delayOcc = [f \in Fields |-> [e \in EventTypes |-> 0]]
  /\ nOcc = 0
  /\ nSubmit = 0

\* The page and the class as the specifications below find them, unless they
\* say otherwise: no cancelling listener, the registries as loaded, and one
\* instance, started with opt, bound to the form.
InitBound ==
  /\ cancels = FALSE
  /\ registry = LoadedRules
  /\ messages = {"en"}
  /\ instances = <<opt>>
  /\ bound = 1
  /\ listeners = attachEvents(1, opt)
  /\ novalidate = TRUE

(* ---------------------------------- custom rules under repeated passes *)
\* Control 1 is required and carries the page's own asynchronous rule;
\* validation runs on change events only.
InitRace ==
  /\ form = [f \in Fields |->
               IF f = 1 THEN [PlainField EXCEPT !.rules = {"user"}, !.required = TRUE]
               ELSE PlainField]
  /\ opt = [defaultOptions EXCEPT !.revalidate = {"change"}]
  /\ hasSubmitBtn = TRUE
  /\ InitDynamic
  /\ InitBound

NextRace ==
  \/ \E f \in Fields, v \in Values : SetValue(f, v)
  \/ \E f \in Fields : Occur(f, "change", "none")
  \/ Settle

SpecRace == InitRace /\ [][NextRace]_vars

(* ------------------------------------------ debounced and delayed passes *)
\* The windows a control's data-eager-debounce / data-eager-delay may hold in
\* the model, in ticks.
Windows == {2}

\* Two plain controls, each with or without a generic debounce attribute and a
\* generic delay attribute; validation runs on blur (debounced by the default
\* options) and on input.
InitSched ==
  /\ \E b1, b2, d1, d2 \in {NoNum} \cup {Num(w) : w \in Windows} :
       form = [f \in Fields |->
                 [PlainField EXCEPT !.debounce = IF f = 1 THEN b1 ELSE b2,
                                    !.delay = IF f = 1 THEN d1 ELSE d2]]
  /\ opt = [defaultOptions EXCEPT !.revalidate = {"blur", "input"}]
  /\ hasSubmitBtn = TRUE
  /\ InitDynamic
  /\ InitBound

NextSched ==
  \/ \E f \in Fields, e \in {"blur", "input"} : Occur(f, e, "none")
  \/ FireTimer
  \/ Tick

SpecSched == InitSched /\ [][NextSched]_vars

(* ------------------------------------------------------ the remote rule *)
\* Two controls carrying data-eager-remote, with any ids; validation runs on
\* change events only.
InitRemote ==
  /\ \E i1, i2 \in Ids :
       form = [f \in Fields |->
                 [PlainField EXCEPT !.rules = {"remote"},
                                    !.id = IF f = 1 THEN i1 ELSE i2]]
  /\ opt = [defaultOptions EXCEPT !.revalidate = {"change"}]
  /\ hasSubmitBtn = TRUE
  /\ InitDynamic
  /\ InitBound

NextRemote ==
  \/ \E f \in Fields : Occur(f, "change", "none")
  \/ Response
  \/ TransportError

SpecRemote == InitRemote /\ [][NextRemote]_vars

\* What data-eager-remote-reverse holds: absent, "true", or another text.
ReverseAttrs == {NoAttr, "true", "false"}

\* Two controls carrying data-eager-remote, with ids of their own and any
\* data-eager-remote-reverse attribute.
InitReverse ==
  /\ \E r1, r2 \in ReverseAttrs :
       form = [f \in Fields |->
                 [PlainField EXCEPT !.rules = {"remote"},
                                    !.id = IF f = 1 THEN "u" ELSE "v",
                                    !.reverse = IF f = 1 THEN r1 ELSE r2]]
  /\ opt = [defaultOptions EXCEPT !.revalidate = {"change"}]
  /\ hasSubmitBtn = TRUE
  /\ InitDynamic
  /\ InitBound

SpecReverse == InitReverse /\ [][NextRemote]_vars

(* ---------------------------------------------------------- submit gating *)
\* Two required controls, each named or not and with any novalidate
\* attribute, the second carrying the page's own rule; any setting of
\* validateWithoutName and disableSubmit; a form with or without a submit
\* control.
InitSubmit ==
  /\ \E n1, n2 \in BOOLEAN, v1, v2 \in {NoAttr, "", "false"} :
       form = [f \in Fields |->
                 [PlainField EXCEPT !.required = TRUE,
                                    !.named = IF f = 1 THEN n1 ELSE n2,
                                    !.novalidate = IF f = 1 THEN v1 ELSE v2,
                                    !.rules = IF f = 2 THEN {"user"} ELSE {}]]
  /\ \E w, d \in BOOLEAN :
       opt = [defaultOptions EXCEPT !.revalidate = {"change"},
                                    !.validateWithoutName = w,
                                    !.disableSubmit = d]
  /\ hasSubmitBtn \in BOOLEAN
  /\ InitDynamic
  /\ InitBound

NextSubmit ==
  \/ \E f \in Fields, v \in Values : SetValue(f, v)
  \/ Submit
  \/ Settle
  \/ FireTimer
  \/ Tick

SpecSubmit == InitSubmit /\ [][NextSubmit]_vars

(* ------------------------------------------------------------ the reset *)
\* A required control and a control carrying the page's own rule; a form
\* with or without a submit control; disableSubmit on or off.
InitReset ==
  /\ form = [f \in Fields |->
               IF f = 1 THEN [PlainField EXCEPT !.required = TRUE]
               ELSE [PlainField EXCEPT !.rules = {"user"}]]
  /\ \E d \in BOOLEAN :
       opt = [defaultOptions EXCEPT !.revalidate = {"change"}, !.disableSubmit = d]
  /\ hasSubmitBtn \in BOOLEAN
  /\ InitDynamic
  /\ InitBound

NextReset ==
  \/ \E f \in Fields, v \in Values : SetValue(f, v)
  \/ Submit
  \/ Reset
  \/ Settle
  \/ FireTimer
  \/ Tick

SpecReset == InitReset /\ [][NextReset]_vars

(* ------------------------------------------------- validate() in a row *)
\* The form of InitRace; the page changes values, fires change events and
\* calls validate().
NextValidate ==
  \/ \E f \in Fields, v \in Values : SetValue(f, v)
  \/ \E f \in Fields : Occur(f, "change", "none")
  \/ Validate
  \/ Settle

SpecValidate == InitRace /\ [][NextValidate]_vars

(* ------------------------------------- native check and rule pipeline *)
\* The values the controls of InitPipeline are given.
PipelineValues == {"", "a", "a@b"}

\* The rules control 1 may carry: match and reference (both settle while
\* they are called), the page's own rule, or match with the page's rule.
PipelineRules == {{"match", "reference"}, {"user"}, {"match", "user"}}

\* Control 1 is required and either a text control or an e-mail control with
\* a pattern; it carries custom rules that refer to control 2, a plain
\* control.  Validation runs on change events only.
InitPipeline ==
  /\ \E mail \in BOOLEAN, rs \in PipelineRules :
       form = [f \in Fields |->
                 IF f = 1
                   THEN [PlainField EXCEPT !.required = TRUE,
                                           !.type = IF mail THEN "email" ELSE "text",
                                           !.pattern = IF mail THEN "a@b" ELSE NoAttr,
                                           !.rules = rs,
                                           !.matchTarget = 2,
                                           !.referenceTarget = 2]
                 ELSE PlainField]
  /\ opt = [defaultOptions EXCEPT !.revalidate = {"change"}]
  /\ hasSubmitBtn = TRUE
  /\ InitDynamic
  /\ InitBound

NextPipeline ==
  \/ \E f \in Fields, v \in PipelineValues : SetValue(f, v)
  \/ \E f \in Fields : Occur(f, "change", "none")
  \/ Settle

SpecPipeline == InitPipeline /\ [][NextPipeline]_vars

(* --------------------------------------------------- rule registration *)
\* The page registers rules, under any name and with any value as predicate.
NextRegistry ==
  \E name \in PageNames, predicate \in Callbacks : Register(name, predicate)

SpecRegistry == InitRace /\ [][NextRegistry]_vars

(* ------------------------------------------ instances and their form *)
\* The options a page constructs an instance with: opt, with any locale, any
\* trigger events and with or without submit and reset capture.
PageOptions ==
  {[opt EXCEPT !.locale = l, !.revalidate = r, !.captureSubmit = s, !.captureReset = c] :
     l \in Locales, r \in SUBSET LifeEvents, s \in BOOLEAN, c \in BOOLEAN}

\* A form with a required control and no instance yet; only the default
\* locale is loaded.
InitLife ==
  /\ form = [f \in Fields |->
               IF f = 1 THEN [PlainField EXCEPT !.required = TRUE] ELSE PlainField]
  /\ opt = defaultOptions
  /\ hasSubmitBtn \in BOOLEAN
  /\ InitDynamic
  /\ cancels = FALSE
  /\ registry = LoadedRules
  /\ messages = {"en"}
  /\ instances = <<>>
  /\ bound = 0
  /\ listeners = {}
  /\ novalidate = FALSE

NextLife ==
  \/ \E options \in PageOptions : Construct(options)
  \/ \E i \in 1..MaxInst, restore \in BOOLEAN : Destroy(i, restore)
  \/ \E name \in Locales : AddLocale(name)

SpecLife == InitLife /\ [][NextLife]_vars

(* ------------------------------------------ the signals of an occurrence *)
\* Control 1 has or has not a generic debounce and a generic delay
\* attribute; the page's eager:before-validate listener cancels the event or
\* does not.  Validation runs on change and on blur (debounced by the default
\* options); the form is valid, so that a change enables the submit control.
InitSignal ==
  /\ \E b, d \in {NoNum} \cup {Num(w) : w \in Windows} :
       form = [f \in Fields |->
                 IF f = 1 THEN [PlainField EXCEPT !.debounce = b, !.delay = d]
                 ELSE PlainField]
  /\ opt = [defaultOptions EXCEPT !.revalidate = {"blur", "change"}]
  /\ hasSubmitBtn = TRUE
  /\ InitDynamic
  /\ cancels \in BOOLEAN
  /\ registry = LoadedRules
  /\ messages = {"en"}
  /\ instances = <<opt>>
  /\ bound = 1
  /\ listeners = attachEvents(1, opt)
  /\ novalidate = TRUE

NextSignal ==
  \/ \E f \in Fields, e \in {"blur", "change"}, key \in {"none", "Tab"} : Occur(f, e, key)
  \/ FireTimer
  \/ Tick

SpecSignal == InitSignal /\ [][NextSignal]_vars

(* ------------------------------------------- rules that fail in validate *)
\* The rule control 1 carries: one that rejects while it is called (match,
\* silent), one that settles later or not at all (user), one that throws
\* (thrower), one that returns no promise (plain).
FailingRules == {"match", "silent", "user", "thrower", "plain"}

\* Control 1 carries one failing rule, control 2 is required; the page
\* changes values and calls validate().
InitIsolation ==
  /\ \E r \in FailingRules :
       form = [f \in Fields |->
                 IF f = 1 THEN [PlainField EXCEPT !.rules = {r}, !.matchTarget = 2]
                 ELSE [PlainField EXCEPT !.required = TRUE]]
  /\ opt = [defaultOptions EXCEPT !.revalidate = {"change"}]
  /\ hasSubmitBtn = TRUE
  /\ InitDynamic
  /\ InitBound

NextIsolation ==
  \/ \E f \in Fields, v \in Values : SetValue(f, v)
  \/ Validate
  \/ Settle

SpecIsolation == InitIsolation /\ [][NextIsolation]_vars

(* -------------------------------------------- re-enabling the submit *)
\* Two required controls, the first with or without novalidate; change and
\* blur events validate, with no debounce; disableSubmit on or off; no
\* scrolling to the first error; a form with or without a submit control.
\* A failed submit disables the control.
InitGate ==
  /\ \E v1 \in {NoAttr, ""} :
       form = [f \in Fields |->
                 [PlainField EXCEPT !.required = TRUE,
                                    !.novalidate = IF f = 1 THEN v1 ELSE NoAttr]]
  /\ \E d \in BOOLEAN :
       opt = [defaultOptions EXCEPT !.revalidate = {"change", "blur"},
                                    !.debounce = [e \in EventTypes |-> 0],
                                    !.autoScroll = FALSE,
                                    !.disableSubmit = d]
  /\ hasSubmitBtn \in BOOLEAN
  /\ InitDynamic
  /\ InitBound

NextGate ==
  \/ \E f \in Fields, v \in Values : SetValue(f, v)
  \/ \E f \in Fields, e \in {"change", "blur"} : Occur(f, e, "none")
  \/ Submit

SpecGate == InitGate /\ [][NextGate]_vars

(* ------------------------------------------------------- the tab key *)
\* Two controls, the first with or without a debounce attribute, the second
\* with a delay attribute; keyup and blur events validate; noTriggerOnTab on
\* or off.  A keyup event carries the key that was released.
InitTab ==
  /\ \E b \in {NoNum, Num(1)} :
       form = [f \in Fields |->
                 IF f = 1 THEN [PlainField EXCEPT !.required = TRUE, !.debounce = b]
                 ELSE [PlainField EXCEPT !.delay = Num(1)]]
  /\ \E n \in BOOLEAN :
       opt = [defaultOptions EXCEPT !.revalidate = {"keyup", "blur"},
                                    !.noTriggerOnTab = n]
  /\ hasSubmitBtn = TRUE
  /\ InitDynamic
  /\ InitBound

NextTab ==
  \/ \E f \in Fields, v \in Values : SetValue(f, v)
  \/ \E f \in Fields, k \in Keys \ {"none"} : Occur(f, "keyup", k)
  \/ \E f \in Fields : Occur(f, "blur", "none")
  \/ FireTimer
  \/ Tick

SpecTab == InitTab /\ [][NextTab]_vars

(* ------------------------------------------------- validate() as a whole *)
\* What the first element of the form is: a fieldset, or a control with no
\* rule, with a rule that settles later, with the reference rule aimed at
\* the second control, or with a rule that throws.
WholeFirst == {"FIELDSET", "none", "user", "reference", "thrower"}

\* The second element is a required control, with or without a delay
\* attribute; change events validate.
InitWhole ==
  /\ \E k \in WholeFirst, d \in {NoNum, Num(1)} :
       form = [f \in Fields |->
                 IF f = 1
                   THEN [PlainField EXCEPT
                           !.tag = IF k = "FIELDSET" THEN "FIELDSET" ELSE "INPUT",
                           !.rules = IF k \in RuleNames THEN {k} ELSE {},
                           !.referenceTarget = 2]
                 ELSE [PlainField EXCEPT !.required = TRUE, !.delay = d]]
  /\ opt = [defaultOptions EXCEPT !.revalidate = {"change"}]
  /\ hasSubmitBtn = TRUE
  /\ InitDynamic
  /\ InitBound

NextWhole ==
  \/ \E v \in Values : SetValue(2, v)
  \/ Occur(2, "change", "none")
  \/ Validate
  \/ Settle
  \/ FireTimer
  \/ Tick

SpecWhole == InitWhole /\ [][NextWhole]_vars

(* ------------------------------------------- where the timing comes from *)
\* The values of the blur-specific attributes, of the generic attributes and
\* of the options in the model: each source absent (or undefined), 0, or a
\* number of its own.
SpecificTimes == {NoNum, Num(0), Num(1)}
GenericTimes == {NoNum, Num(0), Num(2)}
OptionTimes == {0, 3}

\* Control 1 carries any of the blur-specific and generic debounce and delay
\* attributes; the options give blur and input any debounce and delay; blur
\* and input events validate.
InitTiming ==
  /\ \E sb \in SpecificTimes, gb \in GenericTimes, sd \in SpecificTimes, gd \in GenericTimes :
       form = [f \in Fields |->
                 IF f = 1
                   THEN [PlainField EXCEPT !.evDebounce["blur"] = sb, !.debounce = gb,
                                           !.evDelay["blur"] = sd, !.delay = gd]
                 ELSE PlainField]
  /\ \E ob \in OptionTimes, od \in OptionTimes :
       opt = [defaultOptions EXCEPT !.revalidate = {"blur", "input"},
                                    !.debounce = [e \in EventTypes |-> ob],
                                    !.delay = [e \in EventTypes |-> od]]
  /\ hasSubmitBtn = TRUE
  /\ InitDynamic
  /\ InitBound

NextTiming ==
  \/ \E e \in {"blur", "input"} : Occur(1, e, "none")
  \/ FireTimer
  \/ Tick

SpecTiming == InitTiming /\ [][NextTiming]_vars

(* ---------------------------------------------- the text of a rejection *)
\* The rules a control carries here: one that rejects with a reason while
\* it is called, one that settles later, one that rejects with no reason.
RejectingRules == {"match", "user", "silent"}

\* What an override attribute holds: absent, empty, or a text.
RuleErrorAttrs == {NoAttr, "", "rule text"}
ErrorAttrs == {NoAttr, "", "field text"}

\* Control 1 carries one rule, with any data-eager-<rule>-error and any
\* data-eager-error attribute; change events validate.
InitRejection ==
  /\ \E r \in RejectingRules, a \in RuleErrorAttrs, g \in ErrorAttrs :
       form = [f \in Fields |->
                 IF f = 1 THEN [PlainField EXCEPT !.rules = {r}, !.matchTarget = 2,
                                                  !.ruleError[r] = a, !.errorAttr = g]
                 ELSE PlainField]
  /\ opt = [defaultOptions EXCEPT !.revalidate = {"change"}]
  /\ hasSubmitBtn = TRUE
  /\ InitDynamic
  /\ InitBound

NextRejection ==
  \/ \E f \in Fields, v \in Values : SetValue(f, v)
  \/ Occur(1, "change", "none")
  \/ Settle

SpecRejection == InitRejection /\ [][NextRejection]_vars

(* ------------------------------------------ the text of a native error *)
\* What a per-kind override attribute holds: absent, empty, or a text.
KindErrorAttrs == {NoAttr, "", "kind text"}

\* Control 1 is required and either a text control with a pattern or an
\* e-mail control; it has any data-eager-value-missing-error, any
\* data-eager-pattern-mismatch-error and any data-eager-error attribute.  The
\* instance uses the locale en or a locale the page loaded; change events
\* validate.
InitNative ==
  /\ \E mail \in BOOLEAN, a, b \in KindErrorAttrs, g \in ErrorAttrs :
       form = [f \in Fields |->
                 IF f = 1
                   THEN [PlainField EXCEPT !.required = TRUE,
                                           !.type = IF mail THEN "email" ELSE "text",
                                           !.pattern = IF mail THEN NoAttr ELSE "a",
                                           !.kindError["valueMissing"] = a,
                                           !.kindError["patternMismatch"] = b,
                                           !.errorAttr = g]
                 ELSE PlainField]
  /\ \E l \in Locales :
       opt = [defaultOptions EXCEPT !.revalidate = {"change"}, !.locale = l]
  /\ hasSubmitBtn = TRUE
  /\ InitDynamic
  /\ cancels = FALSE
  /\ registry = LoadedRules
  /\ messages = Locales
  /\ instances = <<opt>>
  /\ bound = 1
  /\ listeners = attachEvents(1, opt)
  /\ novalidate = TRUE

NextNative ==
  \/ \E v \in Values : SetValue(1, v)
  \/ Occur(1, "change", "none")

SpecNative == InitNative /\ [][NextNative]_vars

(* --------------------------------------------------- filling a template *)
\* The types of the control whose message is built.
TemplateTypes == {"text", "number", "date"}

\* Control 1 is a text, number or date control, with or without a maxlength,
\* a min and a max attribute; the instance uses en or the locale the page
\* loaded.
InitTemplate ==
  /\ \E ty \in TemplateTypes, ml \in {NoAttr, "5"}, mn \in {NoAttr, "1"}, mx \in {NoAttr, "5"} :
       form = [f \in Fields |->
                 IF f = 1 THEN [PlainField EXCEPT !.type = ty, !.maxlength = ml,
                                                  !.min = mn, !.max = mx]
                 ELSE PlainField]
  /\ \E l \in Locales : opt = [defaultOptions EXCEPT !.locale = l]
  /\ hasSubmitBtn = TRUE
  /\ InitDynamic
  /\ cancels = FALSE
  /\ registry = LoadedRules
  /\ messages = Locales
  /\ instances = <<opt>>
  /\ bound = 1
  /\ listeners = attachEvents(1, opt)
  /\ novalidate = TRUE

\* getMessage reaches its last line with a template of the catalogue.
Fill(msg) ==
  /\ obs' = [task |-> "strtpl", f |-> 1, value |-> value[1], msg |-> msg,
             out |-> fillTemplate(St, 1, msg)]
  /\ UNCHANGED <<static, dynamic, life>>

NextTemplate ==
  \/ \E v \in Values : SetValue(1, v)
  \/ \E msg \in Templates : Fill(msg)

SpecTemplate == InitTemplate /\ [][NextTemplate]_vars

(* --------------------------------------------------------------- claims *)
\* What a control shows: its state class, its feedback message and its
\* custom-error marker.
Visible(f) == <<cls[f], feedback[f], customValidity[f]>>

\* C1 (race invariant): when a rule launched by pass g of a control settles
\* after a later pass of that control has started, the settlement changes
\* nothing the control shows.
C1_StaleSettlementInert ==
  [][\A p \in pend :
        (p \notin pend' /\ p.pass < pass[p.f]) => Visible(p.f)' = Visible(p.f)]_vars

\* C2 (debounce): the occurrences of one burst of an event on a control
\* (each within the debounce window of the previous one) cause exactly one
\* validateField call, made one window after the last of them: the debounce
\* timers of a burst never make a second call.
C2_DebounceOnce ==
  \A f \in Fields, e \in EventTypes : burstInv[f][e] <= 1

\* C3 (delay replacement): once a second delayed occurrence of an event on a
\* control has arrived before the first one's call was made, exactly one call
\* is scheduled for that control and event, the one of the latest occurrence.
C3_DelayReplaced ==
  \A f \in Fields, e \in EventTypes :
    delayOcc[f][e] >= 2 =>
      Cardinality({t \in timers : t.kind = "delay" /\ t.f = f /\ t.e = e}) = 1

\* C6 (a control owns its delay timers): an occurrence on one control never
\* cancels the pending delayed call of another control.
C6_DelayOwned ==
  [][\A t \in timers :
        (t.kind = "delay" /\ nOcc' # nOcc /\ obs'.f # t.f)
          => \E u \in timers' : u.id = t.id]_vars

\* The requests of a control that are in flight.
InFlight(f) ==
  {h \in DOMAIN xhr : xhr[h].f = f /\ abortNeeded(xhr[h].readyState)}

\* C4 (one request per control): at every moment at most one remote request
\* issued for a control is in flight.
C4_OneInFlight ==
  \A f \in Fields : Cardinality(InFlight(f)) <= 1

\* C4's case: a request is in flight that was sent after the pending request
\* of the same control was aborted.
C4_Witness ==
  \E f \in Fields : remoteLast[f].overlap /\ InFlight(f) # {}

\* C5 (remote coalescing): when a remote validation of a control started
\* while the previous one of that control was awaiting its response, the
\* outcome applied is that of the later request and of no other: a response
\* applied to a control is that of its latest request, and the later request
\* stays bound to its request object, in flight or completed, and is not
\* dropped.
C5_Coalesced ==
  /\ obs.task = "response" => obs.pass = remoteLast[obs.f].pass
  /\ \A f \in Fields :
       remoteLast[f].overlap =>
         \E h \in DOMAIN xhr : xhr[h].f = f /\ xhr[h].pass = remoteLast[f].pass

\* C7 (a control owns its request handle): an occurrence on one control
\* neither aborts nor rebinds the in-flight request of another control.
C7_HandleOwned ==
  [][\A h \in DOMAIN xhr :
        (abortNeeded(xhr[h].readyState) /\ nOcc' # nOcc /\ obs'.f # xhr[h].f)
          => xhr'[h] = xhr[h]]_vars

\* The controls that count as errors of the form: failing their native or
\* custom validation, not suppressed, and named unless validateWithoutName.
Eligible(f) ==
  ~Suppressed(f) /\ (opt.validateWithoutName \/ form[f].named)

FirstOf(set) ==
  IF set = {} THEN 0 ELSE CHOOSE f \in set : \A g \in set : f <= g

\* C8 (submit gating): a handled submit marks the form validated; with an
\* error control it is prevented, the submit control is disabled (when
\* disableSubmit is on) and the first error control is focused; with none it
\* is neither prevented nor is the submit control disabled.
C8_SubmitGate ==
  obs.task = "submit" =>
    LET errors == {f \in obs.gate : Eligible(f)}
    IN  /\ formValidated
        /\ errors # {} =>
             /\ obs.prevented
             /\ opt.disableSubmit => obs.disabledBtn
             /\ obs.focused = FirstOf(errors)
        /\ errors = {} => ~obs.prevented /\ ~obs.disabledBtn

\* C9 (completion signal): every handled submit emits eager:done exactly
\* once.
C9_DoneOnce ==
  obs.task = "submit" => obs.done = 1

\* C10 (first error): getFirstError() is the first control in document order
\* among the failing, not suppressed, named ones (0 when there is none), and
\* isValid() holds exactly when there is none.
C10_FirstError ==
  LET errors == {f \in Fields : ~checkValidity(St, f) /\ Eligible(f)}
  IN  /\ getFirstError(St) = FirstOf(errors)
      /\ isValid(St) <=> errors = {}

\* C11 (reset): when a reset has been handled, every control shows neither
\* the valid nor the invalid state and no message, the form's validated flag
\* is cleared, the submit control is enabled, and every control holds the
\* value it held before.
C11_Reset ==
  [][(obs.task # "reset" /\ obs'.task = "reset") =>
        /\ \A f \in Fields :
             cls'[f] = "none" /\ feedback'[f] = "" /\ value'[f] = value[f]
        /\ ~formValidated'
        /\ ~submitDisabled']_vars

\* C12 (idempotence of validate()): when validate() has been called a second
\* time in a row, with no value changed since the first call, and every rule
\* launched has settled, every control shows the same state and the same
\* message as it showed after the first call, its rules settled.
C12_Idempotent ==
  (idem.n = 2 /\ AllSettled(St)) => Shown(St) = idem.snap

\* The elements of a sequence.
Range(s) == {s[i] : i \in DOMAIN s}

\* The rules a task launched for a control.
LaunchedFor(o, f) == {p[2] : p \in {q \in Range(o.launched) : q[1] = f}}

\* C13 (native errors stop the pass): a pass whose native check reports a
\* violated kind other than the custom-error marker leaves the control
\* invalid with a native kind and launches none of its custom rules; a pass
\* whose native check reports the custom-error marker only, or nothing,
\* launches every custom rule the control carries.
C13_NativeStops ==
  [][nOcc' # nOcc =>
        \A f \in Range(obs'.invoked) :
          /\ NativeKinds(St, f) # <<>> =>
               /\ LaunchedFor(obs', f) = {}
               /\ cls'[f] = "invalid"
               /\ feedback'[f] \in {getMessage(St, f, k) : k \in Range(NativeKinds(St, f))}
          /\ NativeKinds(St, f) = <<>> => LaunchedFor(obs', f) = form[f].rules]_vars

\* C13's case: a change on a control that carries custom rules and violates
\* a native constraint was handled, and no rule was launched.
C13_Witness ==
  /\ obs.task = "input"
  /\ obs.invoked = <<obs.f>>
  /\ form[obs.f].rules # {}
  /\ NativeKinds(St, obs.f) # <<>>
  /\ cls[obs.f] = "invalid"
  /\ obs.launched = <<>>

\* C14 (last kind wins): when the native check of a pass reports several
\* violated kinds, the message left on display is that of the last violated
\* kind in the order the validity state enumerates them.
C14_LastKindWins ==
  [][nOcc' # nOcc =>
        \A f \in Range(obs'.invoked) :
          LET kinds == NativeKinds(St, f)
          IN  kinds # <<>> => feedback'[f] = getMessage(St, f, kinds[Len(kinds)])]_vars

\* C14's case: a pass found typeMismatch and patternMismatch violated, in
\* this order, and the control shows the message of patternMismatch.
C14_Witness ==
  /\ obs.task = "input"
  /\ obs.invoked = <<obs.f>>
  /\ NativeKinds(St, obs.f) = <<"typeMismatch", "patternMismatch">>
  /\ feedback[obs.f] = "Please match the requested format"

\* C15 (last settled wins): when every rule launched by the current pass of a
\* control has settled, the control shows the outcome of the rule that
\* settled last in time: valid with the custom-error marker cleared when it
\* succeeded, invalid with a custom error when it failed.
C15_LastSettledWins ==
  \A f \in Fields :
    (/\ pass[f] > 0
     /\ lastSettled[f].pass = pass[f]
     /\ \A p \in pend : p.f # f
     /\ InFlight(f) = {})
    => IF lastSettled[f].ok
         THEN customValidity[f] = "" /\ cls[f] # "invalid" /\ feedback[f] = ""
       ELSE customValidity[f] # "" /\ cls[f] = "invalid"

\* C16 (never skipping Checking): a control is shown valid or invalid only as
\* the outcome of a pass; while a custom rule launched by the current pass of
\* a control is unsettled, the control is not shown valid.
C16_NoValidWhileChecking ==
  \A p \in pend : p.pass = pass[p.f] => cls[p.f] # "valid"

\* The predicate a registry holds under a name.
Lookup(rules, name) ==
  IF \E i \in DOMAIN rules : rules[i].name = name
    THEN rules[CHOOSE i \in DOMAIN rules : rules[i].name = name].callback
  ELSE NoAttr

\* C17 (rule registration): rule(name, predicate) fails and leaves the
\* registry as it was when the name is error, debounce or delay or when the
\* predicate is not a function; otherwise it succeeds, the registry holds the
\* predicate under the name, whether or not the name was registered before,
\* and the other names keep their predicates; the registry never holds a
\* reserved name or a predicate that is not a function.
C17_Registration ==
  [][obs'.task = "rule" =>
        /\ IF obs'.name \in {"error", "debounce", "delay"} \/ obs'.callback \in NonFunctions
             THEN obs'.threw /\ registry' = registry
           ELSE /\ ~obs'.threw
                /\ Lookup(registry', obs'.name) = obs'.callback
                /\ \A i \in DOMAIN registry :
                     registry[i].name # obs'.name =>
                       Lookup(registry', registry[i].name) = registry[i].callback
                /\ Len(registry') =
                     Len(registry) + (IF Lookup(registry, obs'.name) = NoAttr THEN 1 ELSE 0)
        /\ \A i \in DOMAIN registry' :
             /\ registry'[i].name \notin {"error", "debounce", "delay"}
             /\ registry'[i].callback \notin NonFunctions]_vars

\* C17's case: a registration has just failed, and the registry holds the
\* predicate an earlier registration put in the place of the built-in match.
C17_Witness ==
  /\ obs.task = "rule"
  /\ obs.threw
  /\ obs.name \in {"error", "debounce", "delay"}
  /\ Lookup(registry, "match") = "fnA"

\* C18 (unknown locale): constructing an instance with a locale that is not
\* loaded fails, and nothing is set up: the listeners subscribed on the form,
\* the form's novalidate attribute, the instance bound to the form and the
\* instances started before are as they were.
C18_UnknownLocale ==
  [][(obs'.task = "construct" /\ obs'.locale \notin messages) =>
        /\ obs'.threw
        /\ listeners' = listeners
        /\ bound' = bound
        /\ instances' = instances
        /\ novalidate' = novalidate]_vars

\* C18's case: a construction with a locale that is not loaded has just
\* failed on a form that is bound to an instance.
C18_Witness ==
  /\ obs.task = "construct"
  /\ obs.threw
  /\ obs.locale \notin messages
  /\ bound # 0
  /\ listeners # {}

\* C19 (before-validate): every trigger occurrence emits before-validate
\* before anything else, and when a listener cancels it the occurrence is
\* skipped: validateField is not called, no timer is scheduled, the submit
\* control is not enabled and after-validate is not emitted.
C19_BeforeValidate ==
  [][nOcc' # nOcc =>
        /\ obs'.signals # <<>>
        /\ obs'.signals[1] = <<"before-validate", obs'.f>>
        /\ cancels =>
             /\ obs'.invoked = <<>>
             /\ timers' = timers
             /\ ~obs'.enabledBtn
             /\ <<"after-validate", obs'.f>> \notin Range(obs'.signals)]_vars

\* C20 (after-validate): an occurrence that no listener cancelled emits
\* after-validate only after validateField has been called for it, also when
\* it is debounced or delayed.
C20_AfterValidate ==
  (obs.task = "input" /\ ~cancels) =>
    \A i \in DOMAIN obs.signals :
      obs.signals[i] = <<"after-validate", obs.f>> =>
        \E j \in 1..(i - 1) : obs.signals[j] = <<"validateField", obs.f>>

\* C21 (failures are field-isolated): whatever the rule of a control does
\* (rejects, throws, returns no promise, never settles), a validate() call
\* evaluates every control of the form, in document order, and throws
\* nothing to its caller.
C21_FieldIsolated ==
  obs.task = "validate" => (obs.invoked = <<1, 2>> /\ ~obs.threw)

\* C22 (a transport failure settles nothing): after the latest remote
\* request of a control failed in transport, and as long as no new pass is
\* started on the control, no outcome is applied to it: what it shows and
\* the latest settlement recorded for it stay as they are, and it stays
\* marked as being checked.
C22_FailureUnsettled ==
  [][\A f \in Fields :
       (remoteLast'[f].failed /\ pass'[f] = pass[f])
         => /\ Visible(f)' = Visible(f)
            /\ lastSettled'[f] = lastSettled[f]
            /\ busy'[f]]_vars

\* C22's case: a request failed in transport, and after that another task
\* ran while the control was still in the pass of the failed request.
C22_Witness ==
  \E f \in Fields :
    /\ remoteLast[f].failed
    /\ pass[f] = remoteLast[f].pass
    /\ obs.task # "error"

\* C26 (the busy marker lasts as long as the request): the busy marker of a
\* control is true only while a remote request of the control is in flight;
\* it is false again once the request has ended, by a response, by a
\* transport failure or by an abort with no request replacing it.
C26_BusyWhileInFlight ==
  \A f \in Fields : busy[f] => InFlight(f) # {}

C24_TabIgnored ==
  [][(nOcc' # nOcc /\ obs'.task = "input")
       => IF opt.noTriggerOnTab /\ obs'.key = "Tab"
            THEN /\ obs'.invoked = <<>>
                 /\ timers' = timers
                 /\ pass' = pass
                 /\ \A g \in Fields : Visible(g)' = Visible(g)
          ELSE \/ obs'.invoked = <<obs'.f>>
               \/ \E t \in timers' \ timers : t.f = obs'.f /\ t.e = obs'.e]_vars

\* C24's case: with noTriggerOnTab on, a keyup of the tab key has just been
\* handled while a timer of an earlier occurrence was pending.
C24_Witness ==
  /\ opt.noTriggerOnTab
  /\ obs.task = "input" /\ obs.e = "keyup" /\ obs.key = "Tab"
  /\ timers # {}

\* The elements of the form that are no fieldsets, in document order.
NonFieldsets == SelectSeq(<<1, 2>>, LAMBDA f : form[f].tag # "FIELDSET")

\* C25 (validate() runs every control once): a validate() call invokes
\* validateField before it returns, exactly once for every element of the
\* form that is no fieldset, in document order, and neither fires, cancels
\* nor adds a pending debounce or delay timer.
C25_EveryControlOnce ==
  [][(nCalls' # nCalls /\ obs'.task = "validate")
       => /\ obs'.invoked = NonFieldsets
          /\ timers' = timers]_vars

\* C27 (destroy unbinds): once destroy() was called on an instance, no
\* listener of that instance is subscribed on the form any more, for a
\* trigger event, for submit or for reset, and the form is bound to no
\* instance.
C27_Destroyed ==
  [][obs'.task = "destroy"
       => /\ \A l \in listeners' : l[2] # obs'.inst
          /\ bound' = 0]_vars

\* The value the claim names: that of the event-specific attribute when it is
\* present; that of the generic attribute when the specific one is absent
\* and the generic one present; the option when both are absent.
Precedence(specific, generic, option) ==
  CHOOSE v \in 0..3 :
    /\ specific.has => v = specific.val
    /\ (~specific.has /\ generic.has) => v = generic.val
    /\ (~specific.has /\ ~generic.has) => v = option

\* C28 (where debounce and delay come from): an occurrence uses as its
\* debounce, and independently as its delay, the event-specific attribute of
\* the control if present, else its generic attribute if present, else the
\* option of the event type, else 0: with a delay it schedules a delay timer
\* of that length that carries the debounce; with a debounce only, a
\* debounce timer of that length; with neither it calls validateField at
\* once.
C28_TimingPrecedence ==
  [][(nOcc' # nOcc /\ obs'.task = "input")
       => LET f == obs'.f
              e == obs'.e
              b == Precedence(form[f].evDebounce[e], form[f].debounce, opt.debounce[e])
              d == Precedence(form[f].evDelay[e], form[f].delay, opt.delay[e])
              new == {t \in timers' : \A u \in timers : u.id # t.id}
          IN  IF d > 0
                THEN /\ obs'.invoked = <<>>
                     /\ \E t \in new :
                          /\ new = {t}
                          /\ t.kind = "delay" /\ t.f = f /\ t.e = e
                          /\ t.left = d /\ t.bounce = b
              ELSE IF b > 0
                THEN /\ obs'.invoked = <<>>
                     /\ \E t \in new :
                          /\ new = {t}
                          /\ t.kind = "debounce" /\ t.f = f /\ t.e = e
                          /\ t.left = b
              ELSE obs'.invoked = <<f>> /\ new = {}]_vars

\* C28's case: a blur occurrence on a control that carries both debounce
\* attributes and both delay attributes, under options that set both, has
\* scheduled its delay timer.
C28_Witness ==
  /\ obs.task = "input" /\ obs.e = "blur" /\ obs.f = 1
  /\ form[1].evDebounce["blur"] = Num(1) /\ form[1].debounce = Num(2)
  /\ form[1].evDelay["blur"] = Num(1) /\ form[1].delay = Num(2)
  /\ opt.debounce["blur"] = 3 /\ opt.delay["blur"] = 3
  /\ \E t \in timers : t.kind = "delay" /\ t.left = 1 /\ t.bounce = 1

\* C29 (the text of a rejection): when the latest settlement of a control is
\* the rejection of a rule launched by its current pass, the control is
\* shown invalid with a message that is not empty: the per-rule override
\* attribute if present, else the global override attribute if present, else
\* the reason of the rejection if it has a text.
C29_RejectionMessage ==
  \A f \in Fields :
    (lastSettled[f].pass = pass[f] /\ pass[f] > 0 /\ ~lastSettled[f].ok)
      => LET r == lastSettled[f].rule
             perRule == form[f].ruleError[r]
             global == form[f].errorAttr
         IN  /\ cls[f] = "invalid"
             /\ feedback[f] # ""
             /\ perRule # NoAttr => feedback[f] = perRule
             /\ (perRule = NoAttr /\ global # NoAttr) => feedback[f] = global
             /\ (perRule = NoAttr /\ global = NoAttr /\ RejectReason(r) # "")
                  => feedback[f] = RejectReason(r)

\* An override attribute that is present and holds a text.
Given(attr) == attr # NoAttr /\ attr # ""

\* The text the claim names for a native kind of a control.
ResolvedText(f, kind) ==
  LET typed == <<kind, Capitalized(form[f].type)>>
      alone == <<kind, "">>
  IN  IF Given(form[f].kindError[kind]) THEN form[f].kindError[kind]
      ELSE IF Given(form[f].errorAttr) THEN form[f].errorAttr
      ELSE IF typed \in DOMAIN Catalog THEN Catalog[typed]
      ELSE IF alone \in DOMAIN Catalog THEN Catalog[alone]
      ELSE "native message"

\* C30 (the text of a native error): for every native kind and every input
\* type, a pass that finds the kind violated shows the per-kind override
\* attribute of the control, else its global override attribute, else the
\* catalogue text of the kind with the capitalized type, else the catalogue
\* text of the kind alone, else the platform's message.
C30_NativeMessage ==
  [][nOcc' # nOcc =>
        \A f \in Range(obs'.invoked) :
          LET kinds == NativeKinds(St, f)
          IN  kinds # <<>> => feedback'[f] = ResolvedText(f, kinds[Len(kinds)])]_vars

AttrText(f, name) ==
  IF form[f][name] = NoAttr THEN "" ELSE translateNumbers(form[f][name])

\* C32 (placeholder substitution): in the text built from a template, every
\* piece of text is kept and every placeholder is replaced by the value of
\* its name: the count of the value; the control's maxlength, minlength and
\* step attributes; its min and max attributes, in the locale's digits for
\* a number or range control and as a date for a date control; and the
\* empty text for a name with no value.
C32_Placeholders ==
  obs.task = "strtpl" =>
    /\ DOMAIN obs.out = DOMAIN obs.msg
    /\ \A i \in DOMAIN obs.msg :
         LET name == obs.msg[i].text
             f == obs.f
         IN  IF ~obs.msg[i].ph THEN obs.out[i] = name
             ELSE IF name = "count"
               THEN obs.out[i] = translateNumbers(unicodeStrLen(obs.value))
             ELSE IF name \in {"maxlength", "minlength", "step"}
               THEN obs.out[i] = AttrText(f, name)
             ELSE IF name \in {"min", "max"}
               THEN /\ form[f][name] = NoAttr => obs.out[i] = ""
                    /\ (form[f][name] # NoAttr /\ form[f].type \in {"number", "range"})
                         => obs.out[i] = AttrText(f, name)
                    /\ (form[f][name] # NoAttr /\ form[f].type = "date")
                         => obs.out[i] \notin {"", "Invalid Date", "undefined", "null"}
             ELSE obs.out[i] = ""

(* --------------------------------------------- native stop and late answers *)
\* Two required controls with ids of their own, each carrying
\* data-eager-remote and the page's own rule; change is the only trigger.
InitStale ==
  /\ form = [f \in Fields |->
               [PlainField EXCEPT !.required = TRUE,
                                  !.rules = {"remote", "user"},
                                  !.id = IF f = 1 THEN "u" ELSE "v"]]
  /\ opt = [defaultOptions EXCEPT !.revalidate = {"change"}]
  /\ hasSubmitBtn = TRUE
  /\ InitDynamic
  /\ InitBound

NextStale ==
  \/ \E f \in Fields, v \in Values : SetValue(f, v)
  \/ \E f \in Fields : Occur(f, "change", "none")
  \/ Response
  \/ Settle

SpecStale == InitStale /\ [][NextStale]_vars

\* The latest pass of a control that carries data-eager-remote stopped at a
\* native violation: it sent no request (remoteLast holds the pass of the
\* latest request sent for the control).
NativeStopped(f) ==
  /\ "remote" \in form[f].rules
  /\ pass[f] > 0
  /\ remoteLast[f].pass < pass[f]

\* C33 (a native stop stays): once the latest pass of a control has stopped
\* at a native violation, a step that starts no pass of the control neither
\* shows the control valid nor gives it a custom error: not the response of
\* a request an earlier pass left in flight, and not the late settlement of
\* a rule an earlier pass launched.
C33_NativeStopStays ==
  [][\A f \in Fields :
        (NativeStopped(f) /\ pass'[f] = pass[f]) =>
          /\ cls'[f] # "valid"
          /\ customValidity'[f] = customValidity[f]]_vars

(* ------------------------------------------- a submit and rejecting rules *)
\* Two controls, the first carrying data-eager-match (the second being its
\* target) or the page's own rule; change validates, with no debounce; no
\* scrolling to the first error.
InitSubmitRule ==
  /\ \E r \in {"match", "user"} :
       form = [f \in Fields |->
                 IF f = 1 THEN [PlainField EXCEPT !.rules = {r}, !.matchTarget = 2]
                 ELSE PlainField]
  /\ opt = [defaultOptions EXCEPT !.revalidate = {"change"},
                                  !.debounce = [e \in EventTypes |-> 0],
                                  !.autoScroll = FALSE]
  /\ hasSubmitBtn = TRUE
  /\ InitDynamic
  /\ InitBound

NextSubmitRule ==
  \/ \E f \in Fields, v \in Values : SetValue(f, v)
  \/ \E f \in Fields : Occur(f, "change", "none")
  \/ Submit
  \/ Settle

SpecSubmitRule == InitSubmitRule /\ [][NextSubmitRule]_vars

\* A rule the latest pass of the control launched rejects: the match rule
\* settled with a rejection while it was called, or the promise of the
\* page's rule is to be rejected.
RejectsLatest(f) ==
  \/ lastSettled[f] = Settled(pass[f], "match", FALSE)
  \/ \E p \in pend : p.f = f /\ p.pass = pass[f] /\ ~p.ok

\* C34 (a rejecting rule prevents the submit): when validate(), run by a
\* submit, launches for a control a custom rule that rejects, the submit is
\* prevented, whether or not the control was validated before.
C34_RejectionPrevents ==
  [][nSubmit' # nSubmit =>
        \A f \in Fields :
          (LaunchedFor(obs', f) # {} /\ RejectsLatest(f)') => obs'.prevented]_vars

\* C35 (display and marker agree): a control shown invalid because the
\* latest settlement of its current pass is a rejection carries a custom
\* error that is not empty, fails its validity check and is the error
\* getFirstError() finds when no control before it fails.
C35_MarkerAgrees ==
  \A f \in Fields :
    (/\ pass[f] > 0
     /\ lastSettled[f].pass = pass[f]
     /\ ~lastSettled[f].ok
     /\ cls[f] = "invalid")
    => /\ customValidity[f] # ""
       /\ ~checkValidity(St, f)
       /\ (\A g \in Fields : g < f => checkValidity(St, g)) => getFirstError(St) = f

(* ----------------------------------------------- chains of reference rules *)
\* Control 1 carries data-eager-reference naming control 2; control 2
\* carries none, or one naming control 1.  Change events validate, at once or
\* debounced by the options.
InitChain ==
  /\ \E mutual \in BOOLEAN :
       form = [f \in Fields |->
                 IF f = 1 THEN [PlainField EXCEPT !.rules = {"reference"},
                                                  !.referenceTarget = 2]
                 ELSE IF mutual THEN [PlainField EXCEPT !.rules = {"reference"},
                                                        !.referenceTarget = 1]
                 ELSE PlainField]
  /\ \E w \in {0, 1} :
       opt = [defaultOptions EXCEPT !.revalidate = {"change"},
                                    !.debounce = [e \in EventTypes |-> w]]
  /\ hasSubmitBtn = TRUE
  /\ InitDynamic
  /\ InitBound

\* A timer fires, as long as no control has had MaxPass passes.
ChainTimer ==
  /\ \A f \in Fields : pass[f] < MaxPass
  /\ FireTimer

NextChain ==
  \/ \E f \in Fields, v \in Values : SetValue(f, v)
  \/ \E f \in Fields : Occur(f, "change", "none")
  \/ ChainTimer
  \/ Tick

SpecChain == InitChain /\ [][NextChain]_vars

\* C36 (reference chains end): the occurrences of trigger events cause
\* finitely many passes: a chain of reference rules visits a control at most
\* once for an occurrence, so the passes made so far are at most one for
\* every control and occurrence.
C36_ChainsEnd ==
  pass[1] + pass[2] <= Cardinality(Fields) * nOcc

(* ------------------------------------------------- what outlives a reset *)
\* Control 1 has a debounce attribute of one tick and no rule (its value
\* does not matter); control 2 carries data-eager-remote or the page's own
\* rule.  Change events validate; no scrolling to the first error.
InitAfterReset ==
  /\ \E r \in {"remote", "user"} :
       form = [f \in Fields |->
                 IF f = 1 THEN [PlainField EXCEPT !.debounce = Num(1)]
                 ELSE [PlainField EXCEPT !.rules = {r}, !.id = "v"]]
  /\ opt = [defaultOptions EXCEPT !.revalidate = {"change"}, !.autoScroll = FALSE]
  /\ hasSubmitBtn = TRUE
  /\ InitDynamic
  /\ InitBound

NextAfterReset ==
  \/ \E v \in Values : SetValue(2, v)
  \/ \E f \in Fields : Occur(f, "change", "none")
  \/ Submit
  \/ Reset
  \/ Settle
  \/ Response
  \/ FireTimer
  \/ Tick

SpecAfterReset == InitAfterReset /\ [][NextAfterReset]_vars

\* C37 (a reset stays): in the state a handled reset left, a step that is
\* neither a trigger event nor a submit leaves every control without state
\* class and message and the submit control enabled: not a debounced or
\* delayed call scheduled before the reset, and not the settlement of a rule
\* or the response of a request launched before it.
C37_ResetStays ==
  [][(obs.task = "reset" /\ ~obs.threw /\ nOcc' = nOcc /\ nSubmit' = nSubmit) =>
        /\ \A f \in Fields : cls'[f] = "none" /\ feedback'[f] = ""
        /\ ~submitDisabled']_vars

(* ------------------------------------------ the submit control re-enabled *)
\* A plain control (its value does not matter) and a control carrying the
\* page's own rule; change events validate, with no debounce; no scrolling
\* to the first error.
InitReopen ==
  /\ form = [f \in Fields |->
               IF f = 1 THEN PlainField ELSE [PlainField EXCEPT !.rules = {"user"}]]
  /\ opt = [defaultOptions EXCEPT !.revalidate = {"change"},
                                  !.debounce = [e \in EventTypes |-> 0],
                                  !.autoScroll = FALSE]
  /\ hasSubmitBtn = TRUE
  /\ InitDynamic
  /\ InitBound

NextReopen ==
  \/ \E v \in Values : SetValue(2, v)
  \/ \E f \in Fields : Occur(f, "change", "none")
  \/ Submit
  \/ Settle

\* The steps of Settle as pend shows them: a promise that was to settle has
\* settled.
Settles == pend # {} /\ pend' \in (SUBSET pend) \ {pend}

\* The promise of a rule settles in the end: the page's rule answers.  No
\* event has to follow another.
SpecReopen == InitReopen /\ [][NextReopen]_vars /\ WF_pend(Settles)

\* A change occurrence on a control that carries a rule has been handled
\* while the submit control is disabled, and its pass leaves every control
\* valid: no control violates a native constraint, and the promises still to
\* settle are those of the current passes and are to be fulfilled.
ChangeLeavesValid ==
  /\ obs.task = "input" /\ obs.e = "change" /\ form[obs.f].rules # {}
  /\ submitDisabled
  /\ \A f \in Fields : NativeKinds(St, f) = <<>>
  /\ \A f \in Fields : form[f].rules # {} =>
       \E p \in pend : p.f = f /\ p.pass = pass[f]
  /\ \A p \in pend : p.pass = pass[p.f] /\ p.ok

\* C38 (the submit control is re-enabled): after a change occurrence handled
\* while the submit control is disabled, whose pass leaves every control
\* valid, the submit control is enabled in the end, unless another trigger
\* event or submit comes first.
C38_GateReopens ==
  \A n \in 0..MaxOcc, m \in 0..MaxSubmit :
    (ChangeLeavesValid /\ nOcc = n /\ nSubmit = m)
      ~> (~submitDisabled \/ nOcc # n \/ nSubmit # m)

\* The listeners subscribed on the form for an event type.
Subscribed(e) == {l \in listeners : l[1] = e}

\* C39 (one instance per form): whatever constructions and destroy() calls
\* were made, the form has at most one listener for every trigger event, for
\* submit and for reset; and a construction on a form that is bound returns
\* the bound instance: it starts no instance, leaves the form bound as it
\* was and subscribes nothing.
C39_OneInstance ==
  [][/\ \A e \in LifeEvents \cup {"submit", "reset"} : Cardinality(Subscribed(e)') <= 1
     /\ (obs'.task = "construct" /\ instances' # instances) => bound = 0
     /\ (obs'.task = "construct" /\ bound # 0) =>
          /\ bound' = bound
          /\ listeners' = listeners]_vars

====
